---- MODULE Spec2Model ----
(***************************************************************************)
(* Double-buffered ADC/DMA acquisition pipeline of the AHRS                *)
(* (flight/AHRS/ahrs_adc.c): configuration, interrupt-driven buffer swap,  *)
(* FIR decimation and callback hand-off.                                   *)
(*                                                                         *)
(* Task-level code (AHRS_ADC_Config, AHRS_ADC_SetFIRCoefficients, ...)     *)
(* runs statement by statement and can be preempted by the DMA interrupt   *)
(* handler between two statements; the handler itself runs to completion.  *)
(* The DMA engine runs autonomously and transfers one 32-bit word (two     *)
(* 16-bit samples, ADC1 and ADC2 in regular simultaneous mode) at a time.  *)
(*                                                                         *)
(* A float is modelled by the exact quotient it is rounded from, as a      *)
(* reduced fraction <<num, den>> with den > 0; <<1,0>>, <<-1,0>> and       *)
(* <<0,0>> stand for +inf, -inf and NaN.                                   *)
(***************************************************************************)
EXTENDS Integers, Sequences, FiniteSets, TLC

(* ----------------------------- bounds --------------------------------- *)

\* oversample factors passed to AHRS_ADC_Config in Spec: 1..MaxFactor
MaxFactor == 2

\* number of completion signals the DMA engine raises before the model stops it
MaxSignals == 3

\* number of task-level calls (Config, SetCallback, SetFIRCoefficients) made
MaxCalls == 3

\* number of distinct callback functions a caller can register
NumCallbacks == 2

\* oversample factors of the configured states SpecFilter starts from
FilterMaxFactor == 3

\* number of task-level calls made in SpecRange
RangeCalls == 2

(* ------------------------ program constants --------------------------- *)

\* ahrs_adc.h / pios_config.h are not part of the sources at hand; the
\* values are the ones of the documented example (two channels)
PIOS_ADC_NUM_CHANNELS == 2

PIOS_ADC_NUM_PINS == 2

MAX_OVERSAMPLING == 6

MAX_SAMPLES == PIOS_ADC_NUM_CHANNELS * MAX_OVERSAMPLING * 2

\* (ADCCallback) NULL
NULL == 0

\* valid_data_buffer before the first assignment (null pointer, no offset)
NULL_BUFFER == -1

(* --------------------------- arithmetic ------------------------------- *)

Abs(x) == IF x < 0 THEN -x ELSE x

RECURSIVE Gcd(_, _)
Gcd(a, b) == IF b = 0 THEN a ELSE Gcd(b, a % b)

\* store to a volatile uint8_t
ToUint8(x) == x % 256

\* store to an int16_t (two's complement wrap of an in-range int)
ToInt16(x) == ((x + 32768) % 65536) - 32768

\* a + b in an int32_t (two's complement wrap)
AddInt32(a, b) ==
    IF b > 0 /\ a > 2147483647 - b
    THEN (a - 2147483647) + (b - 2147483647) - 2
    ELSE IF b < 0 /\ a < (-2147483647 - 1) - b
    THEN (a + 2147483647) + (b + 2147483647) + 2
    ELSE a + b

\* a + b does not fit an int32_t
AddOverflows(a, b) ==
    \/ (b > 0 /\ a > 2147483647 - b)
    \/ (b < 0 /\ a < (-2147483647 - 1) - b)

\* (x) >> 1 on a non-negative int
Shr1(x) == x \div 2

RECURSIVE RoundTo24(_, _)
\* round the positive integer m (scaled by q) to 24 significant bits, ties to even
RoundTo24(m, q) ==
    IF m \div q < 16777216
    THEN LET lo == (m \div q) * q
             r  == m - lo
         IN  IF 2 * r < q THEN lo
             ELSE IF 2 * r > q THEN lo + q
             ELSE IF (m \div q) % 2 = 0 THEN lo ELSE lo + q
    ELSE RoundTo24(m, 2 * q)

\* (float) of an int32_t
IntToFloat(x) == IF x < 0 THEN -RoundTo24(-x, 1) ELSE RoundTo24(x, 1)

\* float / float, both operands integral
FloatDiv(a, b) ==
    IF b = 0
    THEN (IF a > 0 THEN <<1, 0>> ELSE IF a < 0 THEN <<-1, 0>> ELSE <<0, 0>>)
    ELSE LET g == Gcd(Abs(a), Abs(b))
             s == IF b < 0 THEN -1 ELSE 1
         IN  <<(s * a) \div g, (s * b) \div g>>

\* conversion of a finite float to an integer type: the fraction is discarded
FloatToInt(f) ==
    IF f[1] >= 0 THEN f[1] \div f[2] ELSE -((-f[1]) \div f[2])

FloatZero == <<0, 1>>

(* ------------------------------ state --------------------------------- *)

VARIABLES
    \* program state (ahrs_adc.c:41-53)
    raw_data_buffer,      \* [0..MAX_SAMPLES-1 -> int16]
    valid_data_buffer,    \* offset into raw_data_buffer, or NULL_BUFFER
    adc_oversample,       \* adc_config.adc_oversample (uint8)
    fir_coeffs,           \* [0..MAX_OVERSAMPLING-1 -> int16], and as entry
                          \* MAX_OVERSAMPLING the 16-bit word that follows the array
    downsampled_buffer,   \* [0..PIOS_ADC_NUM_PINS-1 -> float]
    callback_function,    \* NULL or a function 1..NumCallbacks
    \* DMA1 channel 1 and its interrupt line
    dma_enabled,          \* DMA_Cmd(DMA1_Channel1, ENABLE) done
    dma_size,             \* DMA_BufferSize, in 32-bit words
    dma_pos,              \* words transferred in the current lap
    flag_TC,              \* DMA1_IT_TC1 pending
    flag_HT,              \* DMA1_IT_HT1 pending
    irq_enabled,          \* NVIC channel DMA1_Channel1_IRQn enabled
    irq_pending,          \* the NVIC has latched a request of the channel
    \* the task-level caller: position and locals
    pc,                   \* "idle", "config_hw", "config_fir", "set_fir", "reading",
                          \* or "fault": the processor stopped in a fault handler
    arg_oversample,       \* AHRS_ADC_Config's int32 argument
    new_filter,           \* AHRS_ADC_SetFIRCoefficients' argument
    loop_i,               \* the loop index i of the running call
    reader,               \* a reader of the output: its pointer and what it read
    \* observation of the run (not program state)
    n_signals,            \* completion signals raised so far
    n_callbacks,          \* callback invocations so far
    late,                 \* a signal was raised or discarded while one was pending
    cb_missing,           \* a pass ran with no callback registered
    last_signal,          \* kind of the latest signal raised since the DMA reset
    published,            \* the latest two halves published since the DMA reset
    last,                 \* what the latest handler invocation did
    registered,           \* arguments of the AHRS_ADC_SetCallback calls, in order
    call,                 \* the latest call that writes the coefficient table
    n_calls               \* task-level calls made so far

prog_vars == <<raw_data_buffer, valid_data_buffer, adc_oversample, fir_coeffs,
               downsampled_buffer, callback_function>>

dma_vars == <<dma_enabled, dma_size, dma_pos, flag_TC, flag_HT, irq_enabled,
              irq_pending>>

task_vars == <<pc, arg_oversample, new_filter, loop_i, reader>>

obs_vars == <<n_signals, n_callbacks, late, cb_missing, last_signal,
              published, last, registered, call, n_calls>>

vars == <<prog_vars, dma_vars, task_vars, obs_vars>>

Channels == 0 .. (PIOS_ADC_NUM_CHANNELS - 1)

\* the coefficient array with the word that follows it in memory
ZeroTable == [x \in 0 .. MAX_OVERSAMPLING |-> 0]

ZeroBuffer == [x \in 0 .. (PIOS_ADC_NUM_PINS - 1) |-> FloatZero]

\* no handler invocation observed yet
NoPass == [pending |-> {}, cleared |-> {}, passes |-> 0, factor |-> 0,
           reads |-> {}, written |-> {}, invoked |-> <<>>, seen |-> ZeroBuffer]

NoCall == [op |-> "none", done |-> FALSE, prev |-> "none", indices |-> {}]

\* no pointer obtained, nothing read
NoRead == [ptr |-> [object |-> "none", content |-> <<>>], seen |-> <<>>, at |-> <<>>]

\* static storage: everything zero, DMA and its interrupt off
InitProgram ==
    /\ raw_data_buffer = [x \in 0 .. (MAX_SAMPLES - 1) |-> 0]
    /\ valid_data_buffer = NULL_BUFFER
    /\ adc_oversample = 0
    /\ fir_coeffs = ZeroTable
    /\ downsampled_buffer = ZeroBuffer
    /\ callback_function = NULL

InitObservation ==
    /\ n_signals = 0
    /\ n_callbacks = 0
    /\ late = FALSE
    /\ cb_missing = FALSE
    /\ last_signal = "none"
    /\ published = <<>>
    /\ last = NoPass
    /\ registered = <<>>
    /\ call = NoCall
    /\ n_calls = 0

Init ==
    /\ InitProgram
    /\ dma_enabled = FALSE
    /\ dma_size = 0
    /\ dma_pos = 0
    /\ flag_TC = FALSE
    /\ flag_HT = FALSE
    /\ irq_enabled = FALSE
    /\ irq_pending = FALSE
    /\ pc = "idle"
    /\ arg_oversample = 0
    /\ new_filter = <<>>
    /\ loop_i = 0
    /\ reader = NoRead
    /\ InitObservation

(* --------------------- the DMA engine (hardware) ---------------------- *)

\* pairs of samples (ADC1, ADC2) the converters deliver in Spec
SampleWords == { <<10, 5>>, <<30, 5>> }

\* acquisition windows of n words in Spec: the analog inputs hold their level
\* for the duration of one window
SampleWindows(n) == { [i \in 1 .. n |-> w] : w \in SampleWords }

\* the word count at which the next completion flag is raised
NextBoundary == IF dma_pos < dma_size \div 2 THEN dma_size \div 2 ELSE dma_size

\* A transfer sized beyond the raw buffer (limit samples against MAX_SAMPLES)
\* overwrites whatever storage follows the buffer. That storage is not part
\* of the model: the overrun either shows no effect here or ends in a fault.
OverrunOutcomes(limit) ==
    IF limit <= MAX_SAMPLES THEN {"done"} ELSE {"ignored", "fault"}

\* The channel transfers words to the raw buffer in circular mode up to the
\* next half or end of DMA_BufferSize, where the half-transfer or the
\* transfer-complete flag is raised. Both interrupts are enabled
\* (DMA_ITConfig), so a raised flag is latched as a pending request by the
\* NVIC. The words of one window are written in one step: the handler can
\* find a half partly rewritten only after it has missed a signal.
DMAWrite(window) ==
    LET first == 2 * dma_pos
        limit == 2 * NextBoundary
        isHT  == (NextBoundary = dma_size \div 2)
        isTC  == (NextBoundary = dma_size)
    IN  /\ dma_enabled
        /\ dma_size > 0
        /\ \E outcome \in OverrunOutcomes(limit) :
               pc' = IF outcome = "fault" THEN "fault" ELSE pc
        /\ raw_data_buffer' =
              [x \in 0 .. (MAX_SAMPLES - 1) |->
                  IF first <= x /\ x < limit
                  THEN window[((x - first) \div 2) + 1][(x % 2) + 1]
                  ELSE raw_data_buffer[x]]
        /\ dma_pos' = IF isTC THEN 0 ELSE NextBoundary
        /\ flag_HT' = (flag_HT \/ isHT)
        /\ flag_TC' = (flag_TC \/ isTC)
        /\ irq_pending' = TRUE
        /\ late' = (late \/ flag_HT \/ flag_TC)
        /\ last_signal' = IF isTC THEN "TC" ELSE "HT"
        /\ UNCHANGED <<valid_data_buffer, adc_oversample, fir_coeffs,
                       downsampled_buffer, callback_function>>
        /\ UNCHANGED <<dma_enabled, dma_size, irq_enabled>>
        /\ UNCHANGED <<arg_oversample, new_filter, loop_i, reader>>
        /\ UNCHANGED <<n_callbacks, cb_missing, published, last, registered, call, n_calls>>

\* one window transferred and its completion signal counted; the model stops
\* the engine after MaxSignals signals
DMATransfer(window) ==
    /\ n_signals < MaxSignals
    /\ n_signals' = n_signals + 1
    /\ DMAWrite(window)

ADCConversion ==
    \E window \in SampleWindows(NextBoundary - dma_pos) : DMATransfer(window)

(* ----------------------- the decimation filter ------------------------ *)

\* samples of one channel taken as contiguous instead of interleaved
SampleIndexPlanar(base, chan, sample) == base + chan * adc_oversample + sample

\* the window of every channel starting one acquisition round late
SampleIndexNext(base, chan, sample) == base + chan + (sample + 1) * PIOS_ADC_NUM_CHANNELS

\* valid_data_buffer[chan + sample * PIOS_ADC_NUM_CHANNELS]   (line 264)
SampleIndex(base, chan, sample) == base + chan + sample * PIOS_ADC_NUM_CHANNELS

RECURSIVE FIRSum(_, _, _, _, _, _)
\* for (sample = 0; sample < adc_oversample; sample++) sum += ...  (lines 262-264)
FIRSum(buf, base, chan, coeffs, sample, sum) ==
    IF sample < adc_oversample
    THEN FIRSum(buf, base, chan, coeffs, sample + 1,
                AddInt32(sum, buf[SampleIndex(base, chan, sample)] * coeffs[sample]))
    ELSE sum

RECURSIVE FIROverflows(_, _, _, _, _, _)
\* one of the additions of lines 262-264 leaves the range of the int32_t sum
FIROverflows(buf, base, chan, coeffs, sample, sum) ==
    IF sample < adc_oversample
    THEN LET term == buf[SampleIndex(base, chan, sample)] * coeffs[sample]
         IN  \/ AddOverflows(sum, term)
             \/ FIROverflows(buf, base, chan, coeffs, sample + 1, AddInt32(sum, term))
    ELSE FALSE

\* (float)sum / adc_config.fir_coeffs[adc_config.adc_oversample]   (line 265)
Normalize(sum, coeffs) == FloatDiv(IntToFloat(sum), coeffs[adc_oversample])

\* the loop of line 260 stopping one channel short
ChannelsWrittenButLast ==
    { chan \in 0 .. (PIOS_ADC_NUM_PINS - 1) : chan < PIOS_ADC_NUM_CHANNELS - 1 }

\* channels written by the loop of line 260
ChannelsWritten == { chan \in 0 .. (PIOS_ADC_NUM_PINS - 1) : chan < PIOS_ADC_NUM_CHANNELS }

\* downsampled_buffer after the loop of lines 260-266
Downsampled(buf, base, coeffs, old) ==
    [chan \in 0 .. (PIOS_ADC_NUM_PINS - 1) |->
        IF chan \in ChannelsWritten
        THEN Normalize(FIRSum(buf, base, chan, coeffs, 0, 0), coeffs)
        ELSE old[chan]]

\* channels whose sum overflows in a pass over the half at base
OverflowingChannels(base) ==
    { chan \in ChannelsWritten :
        FIROverflows(raw_data_buffer, base, chan, fir_coeffs, 0, 0) }

\* Signed overflow of sum is undefined behaviour. The build either lets the
\* addition wrap (the result the ARM add instruction leaves) or traps on it
\* (-ftrapv), which stops the processor in its fault handler.
PassOutcomes(base) ==
    IF OverflowingChannels(base) = {} THEN {"done"} ELSE {"wrap", "trap"}

\* downsampled_buffer when the pass traps: the channels before the first
\* overflowing one have been written
DownsampledToTrap(buf, base, coeffs, old) ==
    [chan \in 0 .. (PIOS_ADC_NUM_PINS - 1) |->
        IF \A bad \in OverflowingChannels(base) : chan < bad
        THEN Downsampled(buf, base, coeffs, old)[chan]
        ELSE old[chan]]

\* raw-buffer indices read by the loop of lines 260-266
SamplesRead(base) ==
    { SampleIndex(base, chan, sample) :
        chan \in ChannelsWritten, sample \in 0 .. (adc_oversample - 1) }

\* the callback called without the test for NULL
DispatchUnchecked(fn) == <<fn>>

\* if (callback_function) callback_function(downsampled_buffer)  (lines 268-269)
Dispatch(fn) == IF fn # NULL THEN <<fn>> ELSE <<>>

\* the callback called before the loop has written the buffer
CallbackViewEarly(old, new) == old

\* the buffer content the callback finds: it is called after the loop
CallbackView(old, new) == new

(* ------------------------ the interrupt handler ----------------------- *)

\* the second-half offset without the oversample factor
SecondHalfUnscaled == 1 * PIOS_ADC_NUM_CHANNELS

\* the first half published for the transfer-complete flag
SecondHalfSwapped == 0 * PIOS_ADC_NUM_CHANNELS * adc_oversample

\* &raw_data_buffer[1 * PIOS_ADC_NUM_CHANNELS * adc_config.adc_oversample]
SecondHalf == 1 * PIOS_ADC_NUM_CHANNELS * adc_oversample

\* the second half published for the half-transfer flag
FirstHalfSwapped == 1 * PIOS_ADC_NUM_CHANNELS * adc_oversample

\* &raw_data_buffer[0 * PIOS_ADC_NUM_CHANNELS * adc_config.adc_oversample]
FirstHalf == 0 * PIOS_ADC_NUM_CHANNELS * adc_oversample

\* the final else taken for a half-transfer signal
HandlerBranchNoDefault == IF flag_TC THEN "TC" ELSE "HT"

\* the branch taken: the transfer-complete flag is tested first
HandlerBranch == IF flag_TC THEN "TC" ELSE IF flag_HT THEN "HT" ELSE "GL"

Pending == (IF flag_TC THEN {"TC"} ELSE {}) \cup (IF flag_HT THEN {"HT"} ELSE {})

\* no flag cleared: the handled signal stays pending
FlagsClearedNone(branch) == {}

\* flags cleared by DMA_ClearFlag in each branch (GL1 clears all of channel 1)
FlagsCleared(branch) == IF branch = "GL" THEN {"TC", "HT"} ELSE {branch}

KeepTwo(seq) == IF Len(seq) > 2 THEN Tail(seq) ELSE seq

\* AHRS_ADC_downsample_data, called from the handler with the new pointer
DownsampleData(base, outcome) ==
    LET new == Downsampled(raw_data_buffer, base, fir_coeffs, downsampled_buffer)
        inv == Dispatch(callback_function)
    IN  IF outcome = "trap"
        THEN /\ downsampled_buffer' =
                    DownsampledToTrap(raw_data_buffer, base, fir_coeffs, downsampled_buffer)
             /\ last' = [NoPass EXCEPT !.pending = Pending,
                                       !.cleared = FlagsCleared(HandlerBranch),
                                       !.factor = adc_oversample]
             /\ UNCHANGED <<n_callbacks, cb_missing, published>>
        ELSE /\ downsampled_buffer' = new
             /\ n_callbacks' = n_callbacks + Len(inv)
             /\ cb_missing' = (cb_missing \/ callback_function = NULL)
             /\ published' = KeepTwo(Append(published,
                                 [signal |-> HandlerBranch, base |-> base,
                                  factor |-> adc_oversample]))
             /\ last' = [pending |-> Pending, cleared |-> FlagsCleared(HandlerBranch),
                         passes |-> 1, factor |-> adc_oversample,
                         reads |-> SamplesRead(base), written |-> ChannelsWritten,
                         invoked |-> inv,
                         seen |-> IF inv = <<>> THEN ZeroBuffer
                                  ELSE CallbackView(downsampled_buffer, new)]

\* the handler's branch with its pass, for one outcome of the pass
HandlerPass(base, outcome) ==
    /\ valid_data_buffer' = base
    /\ DownsampleData(base, outcome)
    /\ pc' = IF outcome = "trap" THEN "fault" ELSE pc

\* The handler is entered when the NVIC line is enabled and a request is
\* pending; entering clears the latch, and the request is pending again on
\* return if a half/full flag is still set.
AHRS_ADC_DMA_Handler ==
    /\ irq_enabled
    /\ irq_pending
    /\ pc # "fault"
    /\ flag_TC' = (flag_TC /\ "TC" \notin FlagsCleared(HandlerBranch))
    /\ flag_HT' = (flag_HT /\ "HT" \notin FlagsCleared(HandlerBranch))
    /\ irq_pending' = (flag_TC' \/ flag_HT')
    /\ IF HandlerBranch = "TC"
       THEN \E outcome \in PassOutcomes(SecondHalf) : HandlerPass(SecondHalf, outcome)
       ELSE IF HandlerBranch = "HT"
       THEN \E outcome \in PassOutcomes(FirstHalf) : HandlerPass(FirstHalf, outcome)
       ELSE /\ last' = [NoPass EXCEPT !.cleared = FlagsCleared("GL"),
                                      !.factor = adc_oversample]
            /\ UNCHANGED <<valid_data_buffer, downsampled_buffer,
                           n_callbacks, cb_missing, published, pc>>
    /\ UNCHANGED <<raw_data_buffer, adc_oversample, fir_coeffs, callback_function>>
    /\ UNCHANGED <<dma_enabled, dma_size, dma_pos, irq_enabled>>
    /\ UNCHANGED <<arg_oversample, new_filter, loop_i, reader>>
    /\ UNCHANGED <<n_signals, late, last_signal, registered, call, n_calls>>

(* ------------------------- task-level calls --------------------------- *)

\* AHRS_ADC_Config, line 78: the factor is stored before the hardware is set up
AHRS_ADC_Config_enter(k) ==
    /\ pc = "idle"
    /\ adc_oversample' = ToUint8(k)
    /\ arg_oversample' = k
    /\ pc' = "config_hw"
    /\ n_calls < MaxCalls
    /\ n_calls' = n_calls + 1
    /\ call' = [op |-> "Config", done |-> FALSE, prev |-> call.op, indices |-> {}]
    /\ UNCHANGED <<raw_data_buffer, valid_data_buffer, fir_coeffs,
                   downsampled_buffer, callback_function>>
    /\ UNCHANGED dma_vars
    /\ UNCHANGED <<new_filter, loop_i, reader>>
    /\ UNCHANGED <<n_signals, n_callbacks, late, cb_missing, last_signal,
                   published, last, registered>>

\* DMA_BufferSize = (PIOS_ADC_NUM_CHANNELS * adc_oversample * 2) >> 1, in words
BufferSize(k) == Shr1(PIOS_ADC_NUM_CHANNELS * k * 2)

\* AHRS_ADC_Config, lines 80-194: DMA_DeInit stops the channel and clears its
\* flags, DMA_Init/DMA_Cmd restart it in circular mode from the start of the
\* raw buffer, and the half/full interrupts and the NVIC line are enabled.
\* A request the NVIC has already latched stays pending.
AHRS_ADC_Config_hw ==
    /\ pc = "config_hw"
    /\ dma_size' = BufferSize(arg_oversample)
    /\ dma_pos' = 0
    /\ flag_TC' = FALSE
    /\ flag_HT' = FALSE
    /\ dma_enabled' = TRUE
    /\ irq_enabled' = TRUE
    /\ UNCHANGED irq_pending
    /\ pc' = "config_fir"
    /\ loop_i' = 0
    /\ late' = (late \/ flag_TC \/ flag_HT)
    /\ last_signal' = "none"
    /\ published' = <<>>
    /\ last' = NoPass
    /\ UNCHANGED prog_vars
    /\ UNCHANGED <<arg_oversample, new_filter, reader>>
    /\ UNCHANGED <<n_signals, n_callbacks, cb_missing, registered, call, n_calls>>

\* A store to adc_config.fir_coeffs[i]. The array has MAX_OVERSAMPLING
\* entries: a store to index MAX_OVERSAMPLING lands in the word that follows
\* it, which the table of the model holds as its last entry; a store further
\* out lands in storage the model does not hold, and either shows no effect
\* here or ends in a fault.
StoreOutcomes(i) ==
    IF i <= MAX_OVERSAMPLING THEN {"done"} ELSE {"ignored", "fault"}

StoreCoeff(table, i, v) ==
    IF i \in DOMAIN table THEN [table EXCEPT ![i] = v] ELSE table

\* the divisor left as it was
ConfigDivisorStale ==
    IF arg_oversample \in DOMAIN fir_coeffs THEN fir_coeffs[arg_oversample] ELSE 0

\* adc_config.fir_coeffs[adc_oversample] = adc_oversample   (line 199)
ConfigDivisor == ToInt16(arg_oversample)

\* AHRS_ADC_Config, lines 197-201: one coefficient per step, then the divisor
AHRS_ADC_Config_fir ==
    /\ pc = "config_fir"
    /\ \E outcome \in StoreOutcomes(IF loop_i < arg_oversample THEN loop_i
                                     ELSE arg_oversample) :
         IF outcome = "fault"
         THEN /\ pc' = "fault"
              /\ UNCHANGED <<fir_coeffs, loop_i, call>>
         ELSE IF loop_i < arg_oversample
         THEN /\ fir_coeffs' = StoreCoeff(fir_coeffs, loop_i, 1)
              /\ loop_i' = loop_i + 1
              /\ call' = [call EXCEPT !.indices = @ \cup {loop_i}]
              /\ UNCHANGED pc
         ELSE /\ fir_coeffs' = StoreCoeff(fir_coeffs, arg_oversample, ConfigDivisor)
              /\ pc' = "idle"
              /\ call' = [call EXCEPT !.done = TRUE, !.indices = @ \cup {arg_oversample}]
              /\ UNCHANGED loop_i
    /\ UNCHANGED <<raw_data_buffer, valid_data_buffer, adc_oversample,
                   downsampled_buffer, callback_function>>
    /\ UNCHANGED dma_vars
    /\ UNCHANGED <<arg_oversample, new_filter, reader>>
    /\ UNCHANGED <<n_signals, n_callbacks, late, cb_missing, last_signal,
                   published, last, registered, n_calls>>

AHRS_ADC_Config == \E k \in 1 .. MaxFactor : AHRS_ADC_Config_enter(k)

\* a registration that does not replace an earlier one
NewCallbackKeepFirst(old, new_function) == IF old = NULL THEN new_function ELSE old

\* callback_function = new_function   (line 210)
NewCallback(old, new_function) == new_function

AHRS_ADC_SetCallback(new_function) ==
    /\ pc = "idle"
    /\ n_calls < MaxCalls
    /\ n_calls' = n_calls + 1
    /\ callback_function' = NewCallback(callback_function, new_function)
    /\ registered' = Append(registered, new_function)
    /\ UNCHANGED <<raw_data_buffer, valid_data_buffer, adc_oversample,
                   fir_coeffs, downsampled_buffer>>
    /\ UNCHANGED dma_vars
    /\ UNCHANGED task_vars
    /\ UNCHANGED <<n_signals, n_callbacks, late, cb_missing, last_signal,
                   published, last, call>>

SetCallback == \E fn \in 1 .. NumCallbacks : AHRS_ADC_SetCallback(fn)

\* arrays of k + 1 floats a caller passes to AHRS_ADC_SetFIRCoefficients:
\* integral weights 1,2,1,2,... with their sum as divisor, and fractional
\* weights 2.5,-2.5,... with divisor 1.5
TriFilter(k) ==
    [i \in 0 .. k |->
        IF i < k THEN <<1 + (i % 2), 1>>
        ELSE <<k + (k \div 2), 1>>]

FracFilter(k) ==
    [i \in 0 .. k |->
        IF i < k THEN (IF i % 2 = 0 THEN <<5, 2>> ELSE <<-5, 2>>)
        ELSE <<3, 2>>]

\* the default averaging filter as a caller passes it: k ones, then k
BoxcarFilter(k) == [i \in 0 .. k |-> IF i < k THEN <<1, 1>> ELSE <<k, 1>>]

\* filters passed in Spec, and in SpecFilter
Filters(k) == { TriFilter(k) }

FilterFilters(k) == { TriFilter(k), FracFilter(k), BoxcarFilter(k) }

\* the coefficient stored as an 8.8 fixed-point number
StoredCoeffFixedPoint(f) == ToInt16(FloatToInt(<<f[1] * 256, f[2]>>))

\* adc_config.fir_coeffs[i] = new_filter[i]: float stored to an int16_t
StoredCoeff(f) == ToInt16(FloatToInt(f))

AHRS_ADC_SetFIRCoefficients_enter(filter) ==
    /\ pc = "idle"
    /\ new_filter' = filter
    /\ loop_i' = 0
    /\ pc' = "set_fir"
    /\ n_calls < MaxCalls
    /\ n_calls' = n_calls + 1
    /\ call' = [op |-> "SetFIR", done |-> FALSE, prev |-> call.op, indices |-> {}]
    /\ UNCHANGED prog_vars
    /\ UNCHANGED dma_vars
    /\ UNCHANGED <<arg_oversample, reader>>
    /\ UNCHANGED <<n_signals, n_callbacks, late, cb_missing, last_signal,
                   published, last, registered>>

\* the loop bound with < instead of <=: the divisor is not copied
LastCoeffIndexExclusive == adc_oversample - 1

\* for (i = 0; i <= adc_config.adc_oversample; i++)   (lines 247-248)
LastCoeffIndex == adc_oversample

AHRS_ADC_SetFIRCoefficients_loop ==
    /\ pc = "set_fir"
    /\ \E outcome \in StoreOutcomes(loop_i) :
         IF outcome = "fault"
         THEN /\ pc' = "fault"
              /\ UNCHANGED <<fir_coeffs, loop_i, call>>
         ELSE /\ fir_coeffs' = StoreCoeff(fir_coeffs, loop_i, StoredCoeff(new_filter[loop_i]))
              /\ loop_i' = loop_i + 1
              /\ IF loop_i + 1 <= LastCoeffIndex
                 THEN /\ call' = [call EXCEPT !.indices = @ \cup {loop_i}]
                      /\ UNCHANGED pc
                 ELSE /\ pc' = "idle"
                      /\ call' = [call EXCEPT !.done = TRUE, !.indices = @ \cup {loop_i}]
    /\ UNCHANGED <<raw_data_buffer, valid_data_buffer, adc_oversample,
                   downsampled_buffer, callback_function>>
    /\ UNCHANGED dma_vars
    /\ UNCHANGED <<arg_oversample, new_filter, reader>>
    /\ UNCHANGED <<n_signals, n_callbacks, late, cb_missing, last_signal,
                   published, last, registered, n_calls>>

AHRS_ADC_SetFIRCoefficients ==
    \E filter \in Filters(adc_oversample) : AHRS_ADC_SetFIRCoefficients_enter(filter)

(* --------------------------- specification ---------------------------- *)

Next ==
    \/ AHRS_ADC_Config
    \/ AHRS_ADC_Config_hw
    \/ AHRS_ADC_Config_fir
    \/ SetCallback
    \/ AHRS_ADC_SetFIRCoefficients
    \/ AHRS_ADC_SetFIRCoefficients_loop
    \/ ADCConversion
    \/ AHRS_ADC_DMA_Handler

Spec == Init /\ [][Next]_vars

(* ------------- the same program on varied sample windows -------------- *)

\* acquisition windows of n words in SpecFilter: channel 0 ramps up by tens,
\* or both channels ramp with opposite signs
RampUp(n) == [i \in 1 .. n |-> <<10 * i, 5>>]

Bipolar(n) == [i \in 1 .. n |-> <<-10 * i, 7 * i>>]

FilterWindows(n) == { RampUp(n), Bipolar(n) }

FilterConversion ==
    \E window \in FilterWindows(NextBoundary - dma_pos) : DMATransfer(window)

FilterConfig == \E k \in 1 .. FilterMaxFactor : AHRS_ADC_Config_enter(k)

FilterSetFIR ==
    \E filter \in FilterFilters(adc_oversample) : AHRS_ADC_SetFIRCoefficients_enter(filter)

NextFilter ==
    \/ FilterConfig
    \/ AHRS_ADC_Config_hw
    \/ AHRS_ADC_Config_fir
    \/ FilterSetFIR
    \/ AHRS_ADC_SetFIRCoefficients_loop
    \/ FilterConversion
    \/ AHRS_ADC_DMA_Handler

SpecFilter == Init /\ [][NextFilter]_vars

(* ----------- the configured pipeline left running on its own ---------- *)

\* AHRS_ADC_Config called once, and no other call made after it
ConfigOnce == \E k \in 1 .. MaxFactor : n_calls = 0 /\ AHRS_ADC_Config_enter(k)

\* continuous conversion (ADC_ContinuousConvMode, line 118) feeding a circular
\* DMA channel (DMA_Mode_Circular, line 174): the transfers never end, and the
\* signals are not counted
FreeRunningConversion ==
    \E window \in SampleWindows(NextBoundary - dma_pos) :
        DMAWrite(window) /\ UNCHANGED n_signals

NextLive ==
    \/ ConfigOnce
    \/ AHRS_ADC_Config_hw
    \/ AHRS_ADC_Config_fir
    \/ FreeRunningConversion
    \/ AHRS_ADC_DMA_Handler

\* The hardware keeps converting once started, and the NVIC enters the handler
\* of an enabled, pending interrupt: both are weakly fair. Nothing forces the
\* task to call or to go on.
SpecLive ==
    /\ Init
    /\ [][NextLive]_vars
    /\ WF_vars(FreeRunningConversion)
    /\ WF_vars(AHRS_ADC_DMA_Handler)

(* ------------------- a task reading the output ------------------------ *)

\* return adc_config.adc_oversample   (lines 232-235)
AHRS_ADC_GetOverSampling == adc_oversample

\* a private copy of the buffer handed out instead of the buffer itself
GetBufferSnapshot == [object |-> "copy", content |-> downsampled_buffer]

\* return downsampled_buffer: the address of the buffer the handler writes
\* (lines 216-219)
AHRS_ADC_GetBuffer == [object |-> "downsampled_buffer", content |-> <<>>]

\* ptr[i] for a pointer as AHRS_ADC_GetBuffer returns it
Load(ptr, i) ==
    IF ptr.object = "downsampled_buffer" THEN downsampled_buffer[i]
    ELSE ptr.content[i]

\* the reader calls AHRS_ADC_GetBuffer and keeps the pointer
ReaderCall ==
    /\ pc = "idle"
    /\ n_calls < MaxCalls
    /\ n_calls' = n_calls + 1
    /\ pc' = "reading"
    /\ loop_i' = 0
    /\ reader' = [ptr |-> AHRS_ADC_GetBuffer, seen |-> <<>>, at |-> <<>>]
    /\ UNCHANGED prog_vars
    /\ UNCHANGED dma_vars
    /\ UNCHANGED <<arg_oversample, new_filter>>
    /\ UNCHANGED <<n_signals, n_callbacks, late, cb_missing, last_signal,
                   published, last, registered, call>>

\* the reader loads one channel through the pointer; reader.at notes what the
\* buffer held at that moment
ReaderRead ==
    /\ pc = "reading"
    /\ reader' = [reader EXCEPT !.seen = Append(@, Load(reader.ptr, loop_i)),
                                !.at = Append(@, downsampled_buffer)]
    /\ loop_i' = loop_i + 1
    /\ pc' = IF loop_i + 1 < PIOS_ADC_NUM_PINS THEN "reading" ELSE "idle"
    /\ UNCHANGED prog_vars
    /\ UNCHANGED dma_vars
    /\ UNCHANGED <<arg_oversample, new_filter>>
    /\ UNCHANGED obs_vars

NextReader ==
    \/ FilterConfig
    \/ AHRS_ADC_Config_hw
    \/ AHRS_ADC_Config_fir
    \/ FilterConversion
    \/ AHRS_ADC_DMA_Handler
    \/ ReaderCall
    \/ ReaderRead

SpecReader == Init /\ [][NextReader]_vars

(* ---------------- the same program on full-scale inputs --------------- *)

\* acquisition windows of n words: both converters at the ends of the int16_t
\* range, or the ramp of SpecFilter
FullScale(n) == [i \in 1 .. n |-> <<32767, -32768>>]

ExtremeWindows(n) == { FullScale(n), RampUp(n) }

\* the largest weights the int16_t table can hold, with divisor 1
FullScaleFilter(k) == [i \in 0 .. k |-> IF i < k THEN <<32767, 1>> ELSE <<1, 1>>]

ExtremeConversion ==
    \E window \in ExtremeWindows(NextBoundary - dma_pos) : DMATransfer(window)

ExtremeSetFIR ==
    \E filter \in { FullScaleFilter(adc_oversample) } :
        AHRS_ADC_SetFIRCoefficients_enter(filter)

NextExtreme ==
    \/ FilterConfig
    \/ AHRS_ADC_Config_hw
    \/ AHRS_ADC_Config_fir
    \/ ExtremeSetFIR
    \/ AHRS_ADC_SetFIRCoefficients_loop
    \/ ExtremeConversion
    \/ AHRS_ADC_DMA_Handler

SpecExtreme == Init /\ [][NextExtreme]_vars

(* ------------- oversample factors at and beyond the limits ------------ *)

\* arguments of AHRS_ADC_Config: the smallest factor, the largest one the
\* arrays are declared for, and one that does not fit the uint8_t field
RangeFactors == {1, MAX_OVERSAMPLING, 257}

RangeConfig ==
    \E k \in RangeFactors : n_calls < RangeCalls /\ AHRS_ADC_Config_enter(k)

RangeSetFIR == n_calls < RangeCalls /\ AHRS_ADC_SetFIRCoefficients

\* the analog inputs hold one level throughout
RangeConversion ==
    \E window \in { [i \in 1 .. (NextBoundary - dma_pos) |-> <<10, 5>>] } :
        DMATransfer(window)

\* values the owner of the word that follows the coefficient array stores in it
StrayWords == {0, -1}

\* The word that follows the coefficient array belongs to another object of
\* the program, which is written at any time. The model follows these writes
\* while the word matters to the filter: while it is the divisor entry.
PastEndWritten ==
    /\ \E v \in StrayWords :
          /\ fir_coeffs[MAX_OVERSAMPLING] # v
          /\ fir_coeffs' = [fir_coeffs EXCEPT ![MAX_OVERSAMPLING] = v]
    /\ pc = "idle"
    /\ adc_oversample = MAX_OVERSAMPLING
    /\ UNCHANGED <<raw_data_buffer, valid_data_buffer, adc_oversample,
                   downsampled_buffer, callback_function>>
    /\ UNCHANGED dma_vars
    /\ UNCHANGED task_vars
    /\ UNCHANGED obs_vars

NextRange ==
    \/ RangeConfig
    \/ AHRS_ADC_Config_hw
    \/ AHRS_ADC_Config_fir
    \/ RangeSetFIR
    \/ AHRS_ADC_SetFIRCoefficients_loop
    \/ RangeConversion
    \/ AHRS_ADC_DMA_Handler
    \/ PastEndWritten

SpecRange == Init /\ [][NextRange]_vars

TypeOK ==
    /\ adc_oversample \in 0 .. 255
    /\ valid_data_buffer \in {NULL_BUFFER} \cup (0 .. (MAX_SAMPLES - 1))
    /\ callback_function \in 0 .. NumCallbacks
    /\ pc \in {"idle", "config_hw", "config_fir", "set_fir", "reading", "fault"}
    /\ dma_pos \in 0 .. dma_size

(* ------------------------------ claims -------------------------------- *)

\* a step of the interrupt handler: neither the task nor the DMA engine moved
IsHandlerStep == UNCHANGED <<task_vars, n_signals, n_calls>>

\* C1: a handler invocation that finds only the half-transfer flag pending
\* publishes offset 0 of the raw buffer, one that finds the transfer-complete
\* flag pending publishes offset num_channels * oversample_factor; either
\* clears the flag it handled (and no other) and runs exactly one decimation
\* pass in the same invocation.
C1_SignalToHalf ==
    [][ IsHandlerStep =>
          /\ (flag_HT /\ ~flag_TC) =>
                /\ valid_data_buffer' = 0
                /\ ~flag_HT' /\ ~flag_TC'
                /\ last'.passes = 1
          /\ flag_TC =>
                /\ valid_data_buffer' = PIOS_ADC_NUM_CHANNELS * adc_oversample
                /\ ~flag_TC' /\ (flag_HT' = flag_HT)
                /\ last'.passes = 1 ]_vars

\* both signals have been handled in turn with factor 2: first half, then second
C1_Witness ==
    /\ Len(published) = 2
    /\ published[1] = [signal |-> "HT", base |-> 0, factor |-> 2]
    /\ published[2] = [signal |-> "TC", base |-> 4, factor |-> 2]
    /\ valid_data_buffer = 4
    /\ last.pending = {"TC"}
    /\ ~flag_TC

\* the index range of the half starting at base for oversample factor o
HalfRange(base, o) == base .. (base + PIOS_ADC_NUM_CHANNELS * o - 1)

\* C2: when two completion signals of one configuration are handled one after
\* the other, each before the next arrived, they are a half- and a
\* full-transfer signal, and the halves published for them are the two
\* disjoint partitions [0, n*o) and [n*o, 2*n*o) of the raw buffer: the same
\* half is never published twice in a row.
C2_HalvesDisjoint ==
    (~late /\ Len(published) = 2 /\ published[1].factor = published[2].factor) =>
        LET o  == published[2].factor
            ht == IF published[1].signal = "HT" THEN published[1] ELSE published[2]
            tc == IF published[1].signal = "HT" THEN published[2] ELSE published[1]
        IN  /\ published[1].signal # published[2].signal
            /\ published[1].base # published[2].base
            /\ HalfRange(ht.base, o) = 0 .. (PIOS_ADC_NUM_CHANNELS * o - 1)
            /\ HalfRange(tc.base, o) =
                  (PIOS_ADC_NUM_CHANNELS * o) .. (2 * PIOS_ADC_NUM_CHANNELS * o - 1)
            /\ HalfRange(ht.base, o) \cap HalfRange(tc.base, o) = {}

\* the buffer wrapped around: the second half was published, then the first
C2_Witness ==
    /\ ~late
    /\ Len(published) = 2
    /\ published[1] = [signal |-> "TC", base |-> 4, factor |-> 2]
    /\ published[2] = [signal |-> "HT", base |-> 0, factor |-> 2]

RECURSIVE SumUpTo(_, _)
\* f[0] + ... + f[n-1]
SumUpTo(f, n) == IF n = 0 THEN 0 ELSE f[n - 1] + SumUpTo(f, n - 1)

\* the weighted sum of channel c over the half at base, with weights w
WeightedSum(base, c, w) ==
    SumUpTo([x \in 0 .. (adc_oversample - 1) |->
                raw_data_buffer[base + c + x * PIOS_ADC_NUM_CHANNELS] * w[x]],
            adc_oversample)

\* the float f is the quotient num / den (non-finite for a zero divisor)
IsQuotient(f, num, den) ==
    IF den = 0 THEN f[2] = 0
    ELSE f[2] > 0 /\ f[1] * den = num * f[2]

\* At most one completion flag is pending while no signal has been missed.
PendingCount == IF flag_TC \/ flag_HT THEN 1 ELSE 0

\* C3: with a callback registered at every pass and every completion signal
\* handled before the next one arrives, the callback has been invoked once per
\* signal handled (N invocations for N signals), the signal handled last is
\* the one raised last, and each invocation finds every channel of the
\* downsampled buffer written from the half published for that signal.
C3_CallbackPerSignal ==
    /\ []((~late /\ ~cb_missing) =>
            /\ n_callbacks = n_signals - PendingCount
            /\ (last.passes = 1 /\ PendingCount = 0) => last.cleared = {last_signal})
    /\ [][ (IsHandlerStep /\ (flag_TC \/ flag_HT) /\ callback_function # NULL) =>
             /\ n_callbacks' = n_callbacks + 1
             /\ Len(last'.invoked) = 1
             /\ last'.written = Channels
             /\ \A c \in Channels :
                   IsQuotient(last'.seen[c],
                              WeightedSum(valid_data_buffer', c, fir_coeffs),
                              fir_coeffs[adc_oversample]) ]_vars

\* three signals, three invocations, the last one on fresh data
C3_Witness ==
    /\ ~late /\ ~cb_missing
    /\ n_signals = 3 /\ n_callbacks = 3
    /\ last.cleared = {"HT"}
    /\ last.seen[0] = <<30, 1>>

\* the half the DMA engine writes next, and the half the pointer addresses
WritingHalf == IF dma_pos < dma_size \div 2 THEN 1 ELSE 2

PointedHalf ==
    IF valid_data_buffer = 0 THEN 1
    ELSE IF valid_data_buffer = dma_size THEN 2
    ELSE 0

HalfHolds(base, samples) ==
    /\ Len(samples) = PIOS_ADC_NUM_CHANNELS * adc_oversample
    /\ \A x \in 1 .. Len(samples) : raw_data_buffer[base + x - 1] = samples[x]

\* the first entries of the coefficient table are those of seq
TableHolds(coeffs) == \A x \in 1 .. Len(coeffs) : fir_coeffs[x - 1] = coeffs[x]

\* C5: a decimation pass leaves in downsampled[c], for every channel c, the
\* quotient of the sum over s < oversample_factor of raw[c + s*num_channels]
\* * coeff[s] by coeff[oversample_factor], raw being the half the pointer
\* addresses; with two channels, factor 3, coefficients [1,1,1,3] and raw
\* half [10,5,20,5,30,5] the result is [20, 5].
C5_Decimation ==
    [][ (IsHandlerStep /\ (flag_TC \/ flag_HT)) =>
          /\ \A c \in Channels :
                IsQuotient(downsampled_buffer'[c],
                           WeightedSum(valid_data_buffer', c, fir_coeffs),
                           fir_coeffs[adc_oversample])
          /\ (HalfHolds(valid_data_buffer', <<10, 5, 20, 5, 30, 5>>)
                /\ TableHolds(<<1, 1, 1, 3>>)) =>
                    /\ downsampled_buffer'[0] = <<20, 1>>
                    /\ downsampled_buffer'[1] = <<5, 1>> ]_vars

\* the documented example has been computed by the latest pass
C5_Witness ==
    /\ last.passes = 1 /\ last.factor = 3
    /\ valid_data_buffer = 0
    /\ HalfHolds(0, <<10, 5, 20, 5, 30, 5>>)
    /\ TableHolds(<<1, 1, 1, 3>>)
    /\ downsampled_buffer = [x \in 0 .. (PIOS_ADC_NUM_PINS - 1) |->
                                IF x = 0 THEN <<20, 1>> ELSE <<5, 1>>]

\* the float f has the integral value v
IsInteger(f, v) == f[2] # 0 /\ f[1] = v * f[2]

\* v is the float f with its fraction discarded (rounded toward zero)
IsTruncation(f, v) ==
    /\ f[2] > 0
    /\ IF f[1] >= 0
       THEN v * f[2] <= f[1] /\ f[1] < (v + 1) * f[2]
       ELSE (v - 1) * f[2] < f[1] /\ f[1] <= v * f[2]

\* the integer that f truncates to, found among those no larger in magnitude
Truncated(f) == CHOOSE v \in (-Abs(f[1])) .. Abs(f[1]) : IsTruncation(f, v)

\* AHRS_ADC_SetFIRCoefficients has returned and no other call has started
SetFIRReturned == call.op = "SetFIR" /\ call.done

\* C6 as stated: when AHRS_ADC_SetFIRCoefficients(new_filter) has returned,
\* entries 0..oversample_factor of the coefficient table are the caller's
\* values.
C6_Original ==
    SetFIRReturned =>
        \A x \in 0 .. adc_oversample : IsInteger(new_filter[x], fir_coeffs[x])

\* C6 (amended): when AHRS_ADC_SetFIRCoefficients(new_filter) has returned,
\* exactly entries 0..oversample_factor of the coefficient table have been
\* written, each with the caller's value converted to a 16-bit integer (its
\* fraction discarded), and the next decimation pass uses these integers;
\* coefficients [1,2,1,4] on channel samples [10,20,30] yield 20.
C6_CoefficientsReplaced ==
    /\ [](SetFIRReturned =>
            /\ call.indices = 0 .. adc_oversample
            /\ \A x \in 0 .. adc_oversample : IsTruncation(new_filter[x], fir_coeffs[x]))
    /\ [][ (IsHandlerStep /\ (flag_TC \/ flag_HT) /\ SetFIRReturned) =>
             /\ LET w == [x \in 0 .. adc_oversample |-> Truncated(new_filter[x])]
                IN  \A c \in Channels :
                       IsQuotient(downsampled_buffer'[c],
                                  WeightedSum(valid_data_buffer', c, w),
                                  w[adc_oversample])
             /\ (/\ adc_oversample = 3
                 /\ \A x \in 0 .. 3 : IsInteger(new_filter[x], <<1, 2, 1, 4>>[x + 1])
                 /\ \A x \in 0 .. 2 :
                       raw_data_buffer[valid_data_buffer' + x * PIOS_ADC_NUM_CHANNELS]
                          = 10 * (x + 1)) =>
                     downsampled_buffer'[0] = <<20, 1>> ]_vars

\* a pass has used the fractional filter [2.5, -2.5, 1.5], stored as [2, -2, 1]
C6_Witness ==
    /\ SetFIRReturned
    /\ adc_oversample = 2
    /\ new_filter = FracFilter(2)
    /\ TableHolds(<<2, -2, 1>>)
    /\ last.passes = 1
    /\ valid_data_buffer = 0
    /\ HalfHolds(0, <<10, 5, 20, 5>>)
    /\ downsampled_buffer[0] = <<-20, 1>>

\* AHRS_ADC_Config(k) has returned and no other call has started
ConfigReturned == call.op = "Config" /\ call.done

\* C7: when AHRS_ADC_Config(k) has returned, whatever the coefficient table
\* held before (a custom filter included), entries 0..k-1 are 1 and entry k
\* is k.
C7_BoxcarDefault ==
    ConfigReturned =>
        /\ \A x \in 0 .. (arg_oversample - 1) : fir_coeffs[x] = 1
        /\ fir_coeffs[arg_oversample] = arg_oversample
        /\ call.indices = 0 .. arg_oversample

\* Config(2) has returned after a custom filter had been set for factor 2
C7_Witness ==
    /\ ConfigReturned
    /\ call.prev = "SetFIR"
    /\ arg_oversample = 2
    /\ new_filter = TriFilter(2)
    /\ TableHolds(<<1, 1, 2>>)

\* C8: while no callback is registered, every completion signal handled still
\* produces a decimation pass that writes every channel of the downsampled
\* buffer from the published half, and no callback is invoked.
C8_NoCallback ==
    [][ (IsHandlerStep /\ (flag_TC \/ flag_HT) /\ registered = <<>>) =>
          /\ last'.passes = 1
          /\ last'.written = Channels
          /\ \A c \in Channels :
                IsQuotient(downsampled_buffer'[c],
                           WeightedSum(valid_data_buffer', c, fir_coeffs),
                           fir_coeffs[adc_oversample])
          /\ last'.invoked = <<>>
          /\ n_callbacks' = n_callbacks ]_vars

\* two signals handled with no callback, the buffer holding the second result
C8_Witness ==
    /\ registered = <<>> /\ callback_function = NULL
    /\ n_signals = 2 /\ ~flag_TC /\ ~flag_HT /\ ~late
    /\ n_callbacks = 0
    /\ last.passes = 1 /\ last.invoked = <<>>
    /\ downsampled_buffer[0] = <<30, 1>>

\* C9: after any sequence of AHRS_ADC_SetCallback calls, a decimation pass
\* invokes the function registered by the latest call, exactly once, and no
\* function registered earlier.
C9_LastCallbackWins ==
    [][ (IsHandlerStep /\ (flag_TC \/ flag_HT) /\ registered # <<>>) =>
          /\ last'.invoked = <<registered[Len(registered)]>>
          /\ n_callbacks' = n_callbacks + 1 ]_vars

\* function 1 was registered, then function 2, and a pass invoked function 2
C9_Witness ==
    /\ registered = <<1, 2>>
    /\ last.passes = 1
    /\ last.invoked = <<2>>

\* C10: once AHRS_ADC_Config(k) has set up the DMA channel, the circular
\* transfer covers exactly num_channels * k * 2 16-bit samples, and the half
\* base published by the handler and every index base + c + s*num_channels
\* read by the decimation filter lie in [0, num_channels * k * 2).
C10_Capacity ==
    /\ (dma_enabled /\ pc # "config_hw") =>
          2 * dma_size = PIOS_ADC_NUM_CHANNELS * arg_oversample * 2
    /\ \A x \in DOMAIN published :
          /\ 0 <= published[x].base
          /\ published[x].base < PIOS_ADC_NUM_CHANNELS * published[x].factor * 2
    /\ last.passes = 1 =>
          /\ \A x \in last.reads :
                0 <= x /\ x < PIOS_ADC_NUM_CHANNELS * last.factor * 2
          /\ pc # "config_hw" =>
                /\ last.factor = arg_oversample
                /\ \A x \in last.reads : x < 2 * dma_size

\* the last sample of the second half has been read with factor 2
C10_Witness ==
    /\ last.passes = 1 /\ last.factor = 2
    /\ dma_size = 4
    /\ valid_data_buffer = 4
    /\ 7 \in last.reads

\* a completion flag is cleared
FlagCleared == (flag_TC /\ ~flag_TC') \/ (flag_HT /\ ~flag_HT')

\* a decimation pass writes every channel of the downsampled buffer from the
\* half it publishes
RefreshStep ==
    /\ FlagCleared
    /\ last'.passes = 1
    /\ last'.written = Channels
    /\ \A c \in Channels :
          IsQuotient(downsampled_buffer'[c],
                     WeightedSum(valid_data_buffer', c, fir_coeffs),
                     fir_coeffs[adc_oversample])

\* C11: with AHRS_ADC_Config called once and no other call made, the hardware
\* converting on and the handler entered whenever its interrupt is pending,
\* a completion flag is only ever cleared by a decimation pass; a pending
\* transfer-complete signal is eventually handled, a pending half-transfer
\* signal is eventually handled or overtaken by a transfer-complete signal
\* (so every signal is followed by a pass), and once AHRS_ADC_Config has
\* returned the downsampled buffer is refreshed infinitely often.
C11_FreeRunning ==
    /\ [][FlagCleared => RefreshStep]_vars
    /\ (flag_TC ~> ~flag_TC)
    /\ ((flag_HT /\ ~flag_TC) ~> (~flag_HT \/ flag_TC))
    /\ ((<>ConfigReturned) => []<><<RefreshStep>>_vars)

\* Config(2) has returned and the buffer has wrapped around: the second half
\* was decimated, then the first half again, on new samples
C11_Witness ==
    /\ ConfigReturned /\ n_calls = 1
    /\ arg_oversample = 2
    /\ Len(published) = 2
    /\ published[1].signal = "TC" /\ published[2].signal = "HT"
    /\ ~flag_TC /\ ~flag_HT
    /\ raw_data_buffer[4] = 10
    /\ downsampled_buffer[0] = <<30, 1>>

\* the boxcar values for the configured factor are being, or have been, set
BoxcarSet == call.op = "SetFIR" /\ new_filter = BoxcarFilter(adc_oversample)

\* the coefficient table AHRS_ADC_Config(k) leaves: k ones, then k
BoxcarTable(k) == [x \in 0 .. k |-> IF x < k THEN 1 ELSE k]

\* C12: AHRS_ADC_SetFIRCoefficients called with the boxcar values of the
\* configured factor k right after AHRS_ADC_Config(k) changes no entry of the
\* coefficient table at any of its steps; whenever it has returned, entries
\* 0..k are k ones followed by k; and a decimation pass during or after such a
\* call outputs, for every channel, the plain sum of the k samples divided by
\* k, which is what it output before the call.
C12_BoxcarIdempotent ==
    /\ [](BoxcarSet /\ call.done =>
            \A x \in 0 .. adc_oversample :
                fir_coeffs[x] = BoxcarTable(adc_oversample)[x])
    /\ [][ (pc = "set_fir" /\ BoxcarSet /\ call.prev = "Config") =>
                fir_coeffs' = fir_coeffs ]_vars
    /\ [][ (/\ IsHandlerStep /\ (flag_TC \/ flag_HT)
            /\ BoxcarSet /\ (call.done \/ call.prev = "Config")) =>
                \A c \in Channels :
                    IsQuotient(downsampled_buffer'[c],
                               WeightedSum(valid_data_buffer', c,
                                           BoxcarTable(adc_oversample)),
                               adc_oversample) ]_vars

\* the boxcar values have been set for factor 3 right after Config(3), and the
\* latest pass has output the plain average of 10, 20, 30
C12_Witness ==
    /\ BoxcarSet /\ call.done /\ call.prev = "Config"
    /\ adc_oversample = 3
    /\ TableHolds(<<1, 1, 1, 3>>)
    /\ last.passes = 1
    /\ HalfHolds(valid_data_buffer, <<10, 5, 20, 5, 30, 5>>)
    /\ downsampled_buffer[0] = <<20, 1>>

\* C13: a handler invocation that finds neither the transfer-complete nor the
\* half-transfer flag set only clears the channel's global flag: the valid-half
\* pointer, the downsampled buffer, the coefficient table and the rest of the
\* program's data are unchanged, no decimation pass runs (nothing is read or
\* written) and no callback is invoked.
C13_UnexpectedSignal ==
    [][ (IsHandlerStep /\ ~flag_TC /\ ~flag_HT) =>
          /\ UNCHANGED <<valid_data_buffer, downsampled_buffer, fir_coeffs>>
          /\ UNCHANGED <<raw_data_buffer, adc_oversample, callback_function>>
          /\ last'.cleared = {"TC", "HT"}
          /\ ~flag_TC' /\ ~flag_HT'
          /\ last'.passes = 0
          /\ last'.reads = {} /\ last'.written = {}
          /\ last'.invoked = <<>>
          /\ n_callbacks' = n_callbacks
          /\ published' = published ]_vars

\* a request latched before a reconfiguration has been served after it, with
\* no flag set: the pointer and the output of the earlier pass are still there
C13_Witness ==
    /\ last.passes = 0
    /\ last.cleared = {"TC", "HT"}
    /\ valid_data_buffer = 0
    /\ downsampled_buffer[0] = <<10, 1>>
    /\ callback_function # NULL

\* C14 as stated: the downsampled buffer and the coefficient table are each
\* written only by the interrupt handler.
C14_Original ==
    [][ (downsampled_buffer' # downsampled_buffer \/ fir_coeffs' # fir_coeffs) =>
            IsHandlerStep ]_vars

\* C14 (amended): the downsampled buffer is written only by the interrupt
\* handler, whose decimation pass writes every channel of it; the coefficient
\* table is written only by the task-level calls AHRS_ADC_Config and
\* AHRS_ADC_SetFIRCoefficients, and the handler leaves it unchanged.
C14_Writers ==
    /\ [][ downsampled_buffer' # downsampled_buffer =>
              IsHandlerStep /\ (flag_TC \/ flag_HT) ]_vars
    /\ [][ (IsHandlerStep /\ (flag_TC \/ flag_HT)) =>
              last'.written = Channels /\ fir_coeffs' = fir_coeffs ]_vars
    /\ [][ fir_coeffs' # fir_coeffs =>
              ~IsHandlerStep /\ pc \in {"config_fir", "set_fir"} ]_vars

\* the task has replaced the coefficients and a pass has written both channels
C14_Witness ==
    /\ SetFIRReturned
    /\ TableHolds(<<1, 2, 3>>)
    /\ last.passes = 1
    /\ last.written = Channels
    /\ downsampled_buffer[0] = <<10, 1>>
    /\ downsampled_buffer[1] = <<5, 1>>

\* C15: a reader that obtained the downsampled buffer through
\* AHRS_ADC_GetBuffer reads the buffer itself: every value it holds is what
\* the buffer held at the moment of that read, not at the moment of the call;
\* and while it is between two reads nothing keeps the handler out: the
\* handler can run whenever its interrupt is pending. (The torn read is the
\* state C15_Witness.)
C15_TornRead ==
    /\ \A x \in 1 .. Len(reader.seen) : reader.seen[x] = reader.at[x][x - 1]
    /\ (pc = "reading" /\ irq_enabled /\ irq_pending) =>
            ENABLED AHRS_ADC_DMA_Handler

\* the reader has read channel 0 from one pass (10, 5) and, preempted by the
\* handler, channel 1 from the next (-10, 7): the pair (10, 7) it holds was
\* never the content of the buffer
C15_Witness ==
    /\ pc = "idle"
    /\ Len(reader.seen) = 2
    /\ reader.at[1] = [x \in 0 .. (PIOS_ADC_NUM_PINS - 1) |->
                          IF x = 0 THEN <<10, 1>> ELSE <<5, 1>>]
    /\ reader.at[2] = [x \in 0 .. (PIOS_ADC_NUM_PINS - 1) |->
                          IF x = 0 THEN <<-10, 1>> ELSE <<7, 1>>]
    /\ reader.seen = << <<10, 1>>, <<7, 1>> >>

RECURSIVE PartialSumsFit(_, _, _, _)
\* acc plus the terms x .. n-1, added one by one, never leaves the int32 range
PartialSumsFit(terms, n, x, acc) ==
    IF x = n THEN TRUE
    ELSE /\ IF terms[x] > 0 THEN acc <= 2147483647 - terms[x]
                            ELSE acc >= (-2147483647 - 1) - terms[x]
         /\ PartialSumsFit(terms, n, x + 1, acc + terms[x])

\* the weighted sum of channel c over the half at base stays in the int32 range
AccumulatorFits(base, c) ==
    PartialSumsFit([x \in 0 .. (adc_oversample - 1) |->
                       raw_data_buffer[base + c + x * PIOS_ADC_NUM_CHANNELS]
                         * fir_coeffs[x]],
                   adc_oversample, 0, 0)

\* C16: in every decimation pass, whatever int16 samples the half holds and
\* whatever int16 coefficients the table holds, the weighted sum accumulated
\* for each channel stays within the range of the 32-bit accumulator at every
\* addition, and no pass stops on an overflow.
C16_AccumulatorInRange ==
    /\ [][ (IsHandlerStep /\ (flag_TC \/ flag_HT)) =>
              \A c \in Channels : AccumulatorFits(valid_data_buffer', c) ]_vars
    /\ [](pc # "fault")

\* entries 0..k of the coefficient table are k ones followed by k
TableIsBoxcar(k) == \A x \in 0 .. k : fir_coeffs[x] = BoxcarTable(k)[x]

\* C17: a decimation pass that runs once AHRS_ADC_Config(k) has been entered
\* never runs before the call has written its coefficients: it finds the call
\* past lines 197-199, entries 0..k-1 equal to 1 and the divisor equal to k.
C17_CoefficientsReady ==
    [][ (IsHandlerStep /\ (flag_TC \/ flag_HT) /\ call.op = "Config") =>
            /\ pc \notin {"config_hw", "config_fir"}
            /\ TableIsBoxcar(arg_oversample) ]_vars

\* a pass has run inside the first Config(2), before any coefficient was
\* written, and divided by the zero the table still held
C17_Witness ==
    /\ call.op = "Config" /\ call.prev = "none" /\ ~call.done
    /\ arg_oversample = 2
    /\ pc = "config_fir" /\ loop_i = 0
    /\ last.passes = 1
    /\ fir_coeffs[2] = 0
    /\ downsampled_buffer[0][2] = 0

\* C18: every decimation pass that runs once AHRS_ADC_SetFIRCoefficients has
\* been entered after a completed AHRS_ADC_Config(k) uses a coefficient table
\* that is entirely the old set (k ones, then k) or entirely the new set (the
\* caller's values as stored), never some entries of each.
C18_AtomicUpdate ==
    [][ (/\ IsHandlerStep /\ (flag_TC \/ flag_HT)
         /\ call.op = "SetFIR" /\ call.prev = "Config") =>
            \/ TableIsBoxcar(adc_oversample)
            \/ \A x \in 0 .. adc_oversample :
                   IsTruncation(new_filter[x], fir_coeffs[x]) ]_vars

\* a pass has run inside SetFIRCoefficients([1, 2, 3]) after Config(2), with
\* the new weights 1, 2 and the old divisor 2: samples 10, 10 gave 15
C18_Witness ==
    /\ call.op = "SetFIR" /\ call.prev = "Config" /\ ~call.done
    /\ pc = "set_fir" /\ loop_i = 2
    /\ TableHolds(<<1, 2, 2>>)
    /\ last.passes = 1
    /\ downsampled_buffer[0] = <<15, 1>>

\* C19: once AHRS_ADC_Config has set up the DMA channel, the factor
\* AHRS_ADC_GetOverSampling reports is the argument Config was called with,
\* the one it sized the DMA transfer with and wrote the boxcar coefficients
\* for; and the handler's half offset and the filter's window length and
\* divisor index are those of that argument.
C19_OneFactor ==
    (dma_enabled /\ pc \notin {"config_hw", "fault"}) =>
        /\ AHRS_ADC_GetOverSampling = arg_oversample
        /\ dma_size = PIOS_ADC_NUM_CHANNELS * AHRS_ADC_GetOverSampling
        /\ ConfigReturned => call.indices = 0 .. AHRS_ADC_GetOverSampling
        /\ last.passes = 1 =>
              /\ last.factor = arg_oversample
              /\ valid_data_buffer \in {0, PIOS_ADC_NUM_CHANNELS * arg_oversample}

\* Config(257) has returned: the DMA channel transfers 514 words per lap and
\* the boxcar was written for 257, while the factor field holds 1
C19_Witness ==
    /\ ConfigReturned
    /\ arg_oversample = 257
    /\ dma_size = 514
    /\ 257 \in call.indices
    /\ AHRS_ADC_GetOverSampling = 1

\* C20: for a factor k with 1 <= k <= MAX_OVERSAMPLING, every index of the
\* coefficient array written by AHRS_ADC_Config and
\* AHRS_ADC_SetFIRCoefficients, and every index read by a decimation pass
\* (the weights 0..k-1 and the divisor index k), lies in
\* [0, MAX_OVERSAMPLING).
C20_TableIndices ==
    (arg_oversample \in 1 .. MAX_OVERSAMPLING /\ adc_oversample = arg_oversample) =>
        /\ call.indices \subseteq 0 .. (MAX_OVERSAMPLING - 1)
        /\ last.passes = 1 =>
              0 .. last.factor \subseteq 0 .. (MAX_OVERSAMPLING - 1)

\* Config(MAX_OVERSAMPLING) has written its divisor past the end of the array,
\* the word there has been overwritten with -1 by its owner, and a pass has
\* divided the sum 60 by it
C20_Witness ==
    /\ ConfigReturned
    /\ arg_oversample = MAX_OVERSAMPLING
    /\ MAX_OVERSAMPLING \in call.indices
    /\ last.passes = 1 /\ last.factor = MAX_OVERSAMPLING
    /\ fir_coeffs[MAX_OVERSAMPLING] = -1
    /\ downsampled_buffer[0] = <<-60, 1>>

(* ------------------------- order of the passes ------------------------ *)

\* the half/full flags an invocation finds raised and leaves cleared
FlagsLowered == { f \in Pending : f \notin Pending' }

\* both flags are pending and the half-transfer flag was raised first: the
\* latest signal raised is the transfer-complete one
BothPendingHalfFirst == flag_HT /\ flag_TC /\ last_signal = "TC"

\* C21: each invocation of AHRS_ADC_DMA_Handler clears at most one of the
\* half-transfer/full-transfer flags and runs at most one decimation pass;
\* and when both flags are pending on entry, the half-transfer flag raised
\* first, the invocation processes the first half and leaves the
\* transfer-complete flag pending, so that the next invocation processes the
\* second half: the two passes run in the order the signals arrived.
C21_ArrivalOrder ==
    [][IsHandlerStep =>
          /\ Cardinality(FlagsLowered) <= 1
          /\ last'.passes <= 1
          /\ BothPendingHalfFirst =>
                /\ valid_data_buffer' = FirstHalf
                /\ FlagsLowered = {"HT"}
                /\ irq_pending']_vars

\* one Config call, the two signals of the first lap raised before the
\* handler ran, and then two invocations: the second half was published
\* first and the first half, the older one, last
C21_Witness ==
    /\ n_calls = 1
    /\ n_signals = 2
    /\ Len(published) = 2
    /\ published[1].signal = "TC" /\ published[1].base = SecondHalf
    /\ published[2].signal = "HT" /\ published[2].base = FirstHalf
    /\ valid_data_buffer = FirstHalf
    /\ last.pending = {"HT"}
    /\ ~irq_pending

====
